---------------------------- MODULE Spec2Model ----------------------------
(***************************************************************************)
(* A model of the JSON tree visualizer: the tree builder (buildTreeNodes), *)
(* the query normalizer (normalizePathQuery), the search effect and the    *)
(* click handler of TreeVisualizer.jsx, and the handlers of App.           *)
(*                                                                         *)
(* JavaScript strings are sequences of one-character strings, so that      *)
(* concatenation, trimming, replacement, prefix, suffix and substring      *)
(* tests are computed as the code computes them.                           *)
(***************************************************************************)
EXTENDS Integers, Sequences, FiniteSets, TLC

VARIABLES
    jsonText,     \* App: the text of the editor
    parsedData,   \* App: the parsed document (JNull when there is none)
    error,        \* App: the parse error message, or Null
    searchQuery,  \* App: the text of the search box
    rfNodes,      \* TreeVisualizer: the node list
    rfEdges,      \* TreeVisualizer: the edge list
    pathToNode,   \* TreeVisualizer: the path table (ordered path -> id entries)
    highlighted,  \* TreeVisualizer: a node id, a no-match sentinel, or Null
    normalized,   \* the search effect's normalized query q (Null before it has one)
    hasClipboard, \* the environment: whether navigator.clipboard exists
    writes,       \* the clipboard writes started by clicks, with their promise state
    timers,       \* the pending revert timers (setTimeout ... 1200), oldest first
    pc            \* which specification runs, and how far it has come

vars == <<jsonText, parsedData, error, searchQuery, rfNodes, rfEdges,
          pathToNode, highlighted, normalized, hasClipboard, writes, timers, pc>>

(***************************************************************************)
(* Strings                                                                 *)
(***************************************************************************)

\* JavaScript's null for a variable that otherwise holds a string: a tuple
\* that is no string, since its one element is not a character.
Null == << "<null>" >>

UpperChars == <<"A","B","C","D","E","F","G","H","I","J","K","L","M",
                "N","O","P","Q","R","S","T","U","V","W","X","Y","Z">>

LowerChars == <<"a","b","c","d","e","f","g","h","i","j","k","l","m",
                "n","o","p","q","r","s","t","u","v","w","x","y","z">>

DigitChars == <<"0","1","2","3","4","5","6","7","8","9">>

\* String.prototype.toLowerCase
toLowerCase(s) ==
    [i \in 1..Len(s) |->
        IF \E k \in 1..26 : UpperChars[k] = s[i]
        THEN LowerChars[CHOOSE k \in 1..26 : UpperChars[k] = s[i]]
        ELSE s[i]]

\* the characters matched by \s and removed by trim()
IsSpace(c) == c \in {" ", "\t", "\n", "\r"}

\* String.prototype.startsWith
startsWith(s, p) == Len(p) <= Len(s) /\ SubSeq(s, 1, Len(p)) = p

\* String.prototype.endsWith
endsWith(s, p) == Len(p) <= Len(s) /\ SubSeq(s, Len(s) - Len(p) + 1, Len(s)) = p

\* String.prototype.includes, and indexOf(...) !== -1
includes(s, p) ==
    \E i \in 0..(Len(s) - Len(p)) : SubSeq(s, i + 1, i + Len(p)) = p

\* String.prototype.slice(n) for n >= 0
sliceFrom(s, n) == SubSeq(s, n + 1, Len(s))

\* String.prototype.trim
trim(s) ==
    LET keep == {i \in 1..Len(s) : ~IsSpace(s[i])}
    IN  IF keep = {} THEN <<>>
        ELSE SubSeq(s, CHOOSE i \in keep : \A j \in keep : i <= j,
                       CHOOSE i \in keep : \A j \in keep : j <= i)

\* String.prototype.replace(/c/g, r) for a one-character pattern c
RECURSIVE replaceChar(_, _, _)
replaceChar(s, c, r) ==
    IF s = <<>> THEN <<>>
    ELSE (IF Head(s) = c THEN r ELSE <<Head(s)>>) \o replaceChar(Tail(s), c, r)

\* String(n) for an integer n
RECURSIVE natToString(_)
natToString(n) ==
    IF n < 10 THEN <<DigitChars[n + 1]>>
    ELSE natToString(n \div 10) \o <<DigitChars[(n % 10) + 1]>>

numberToString(n) == IF n < 0 THEN <<"-">> \o natToString(-n) ELSE natToString(n)

(***************************************************************************)
(* JSON values                                                             *)
(***************************************************************************)

\* A JSON value. An object holds its members in the order of Object.keys,
\* an array its elements in index order.
JVal(t, s, n, b, m, e) ==
    [type |-> t, str |-> s, num |-> n, bool |-> b, members |-> m, elems |-> e]

JNull == JVal("null", <<>>, 0, FALSE, <<>>, <<>>)
JStr(s) == JVal("string", s, 0, FALSE, <<>>, <<>>)
JNum(n) == JVal("number", <<>>, n, FALSE, <<>>, <<>>)
JBool(b) == JVal("boolean", <<>>, 0, b, <<>>, <<>>)
JObj(m) == JVal("object", <<>>, 0, FALSE, m, <<>>)
JArr(e) == JVal("array", <<>>, 0, FALSE, <<>>, e)

Member(k, v) == [key |-> k, value |-> v]

\* !value : null, false, 0 and "" are falsy
Falsy(v) ==
    \/ v.type = "null"
    \/ v.type = "boolean" /\ ~v.bool
    \/ v.type = "number" /\ v.num = 0
    \/ v.type = "string" /\ v.str = <<>>

\* String(value) for a primitive
primitiveToString(v) ==
    CASE v.type = "null" -> <<"n","u","l","l">>
      [] v.type = "boolean" ->
            IF v.bool THEN <<"t","r","u","e">> ELSE <<"f","a","l","s","e">>
      [] v.type = "number" -> numberToString(v.num)
      [] OTHER -> v.str

(***************************************************************************)
(* The tree builder                                                        *)
(***************************************************************************)

\* the layout constants of buildTreeNodes
COLUMN_GAP == 180
LEVEL_GAP == 110
ROOT_MARGIN == 120
ROOT_Y == 20
HALF_NODE_WIDTH == 70

nodeType(value) ==
    CASE value.type = "array" -> "array"
      [] value.type = "object" -> "object"
      [] OTHER -> "primitive"

makeNodeId(path) ==
    replaceChar(replaceChar(replaceChar(path, ".", <<"_">>), "[", <<"_">>), "]", <<>>)

\* the children of a container as build lists them: key, value and path
childPath(path, key) ==
    path \o (IF path = <<"$">> THEN <<>> ELSE <<".">>) \o key

elementPath(path, i) == path \o <<"[">> \o numberToString(i) \o <<"]">>

\* childrenOf with the array loop stopping one element early
childrenOfSkipsLast(value, path) ==
    IF nodeType(value) = "object"
    THEN [i \in 1..Len(value.members) |->
            [key |-> value.members[i].key,
             value |-> value.members[i].value,
             path |-> childPath(path, value.members[i].key)]]
    ELSE [i \in 1..(Len(value.elems) - 1) |->
            [key |-> numberToString(i - 1),
             value |-> value.elems[i],
             path |-> elementPath(path, i - 1)]]

childrenOf(value, path) ==
    IF nodeType(value) = "object"
    THEN [i \in 1..Len(value.members) |->
            [key |-> value.members[i].key,
             value |-> value.members[i].value,
             path |-> childPath(path, value.members[i].key)]]
    ELSE [i \in 1..Len(value.elems) |->
            [key |-> numberToString(i - 1),
             value |-> value.elems[i],
             path |-> elementPath(path, i - 1)]]

RECURSIVE sumSeq(_)
sumSeq(ws) == IF ws = <<>> THEN 0 ELSE Head(ws) + sumSeq(Tail(ws))

\* measure without the `|| 1` of its return
RECURSIVE measureEmptyIsZero(_)
measureEmptyIsZero(value) ==
    IF nodeType(value) = "primitive" THEN 1
    ELSE LET kids == IF nodeType(value) = "array"
                     THEN value.elems
                     ELSE [i \in 1..Len(value.members) |-> value.members[i].value]
         IN  sumSeq([i \in 1..Len(kids) |-> measureEmptyIsZero(kids[i])])

\* measure: the number of leaf columns of a subtree
RECURSIVE measure(_)
measure(value) ==
    IF nodeType(value) = "primitive" THEN 1
    ELSE LET kids == IF nodeType(value) = "array"
                     THEN value.elems
                     ELSE [i \in 1..Len(value.members) |-> value.members[i].value]
             total == sumSeq([i \in 1..Len(kids) |-> measure(kids[i])])
         IN  IF total = 0 THEN 1 ELSE total

\* pathToNode[path] = id on a JavaScript object: a new key is appended, an
\* existing key keeps its place and takes the new value
putEntry(table, path, id) ==
    IF \E i \in 1..Len(table) : table[i].path = path
    THEN [i \in 1..Len(table) |->
            IF table[i].path = path THEN [path |-> path, id |-> id] ELSE table[i]]
    ELSE Append(table, [path |-> path, id |-> id])

\* the label of a node: `key: value` for a primitive below the root, else the
\* key, and `$` for the root
displayLabel(node, isRoot) ==
    IF nodeType(node.value) = "primitive" /\ ~isRoot
    THEN node.key \o <<":", " ">> \o primitiveToString(node.value)
    ELSE IF isRoot THEN <<"$">> ELSE node.key

makeNode(node, isRoot, x, y) ==
    [id |-> makeNodeId(node.path),
     x |-> x - HALF_NODE_WIDTH,
     y |-> y,
     label |-> displayLabel(node, isRoot),
     path |-> node.path,
     value |-> node.value,
     type |-> nodeType(node.value)]

makeEdge(id, childId) ==
    [id |-> id \o <<"-">> \o childId, source |-> id, target |-> childId]

\* build(node, x, y): push the node, then for every child in order build the
\* child's subtree and push the edge to it. acc is what has been emitted
\* so far: nodes, edges and the path table.
RECURSIVE build(_, _, _, _, _)
RECURSIVE buildChildren(_, _, _, _, _, _)
build(node, isRoot, x, y, acc) ==
    LET t == nodeType(node.value)
        id == makeNodeId(node.path)
        acc1 == [nodes |-> Append(acc.nodes, makeNode(node, isRoot, x, y)),
                 edges |-> acc.edges,
                 pathToNode |-> putEntry(acc.pathToNode, node.path, id)]
        childY == y + LEVEL_GAP
    IN  IF t = "object" \/ t = "array"
        THEN LET children == childrenOf(node.value, node.path)
                 childWidths == [i \in 1..Len(children) |-> measure(children[i].value)]
                 sum == sumSeq(childWidths)
                 totalCols == IF sum = 0 THEN 1 ELSE sum
                 curX == x - ((totalCols - 1) * COLUMN_GAP) \div 2
             IN  buildChildren(children, 1, curX, childY, id, acc1)
        ELSE acc1

buildChildren(children, i, curX, childY, id, acc) ==
    IF i > Len(children) THEN acc
    ELSE LET child == children[i]
             width == measure(child.value)
             cw == IF width = 0 THEN 1 ELSE width
             childCenter == curX + ((cw - 1) * COLUMN_GAP) \div 2
             childId == makeNodeId(child.path)
             built == build(child, FALSE, childCenter, childY, acc)
             acc2 == [built EXCEPT !.edges = Append(@, makeEdge(id, childId))]
         IN  buildChildren(children, i + 1, curX + cw * COLUMN_GAP, childY, id, acc2)

buildTreeNodes(data) ==
    LET rootCols == measure(data)
        rootX == ((rootCols - 1) * COLUMN_GAP) \div 2 + ROOT_MARGIN
    IN  build([key |-> <<>>, value |-> data, path |-> <<"$">>], TRUE, rootX, ROOT_Y,
              [nodes |-> <<>>, edges |-> <<>>, pathToNode |-> <<>>])

(***************************************************************************)
(* Query normalization                                                     *)
(***************************************************************************)

\* q.replace(/\.\./g, '.'): the pairs of dots found left to right, without
\* overlap, each become one dot
RECURSIVE replaceDoubleDots(_)
replaceDoubleDots(s) ==
    IF Len(s) < 2 THEN s
    ELSE IF s[1] = "." /\ s[2] = "."
         THEN <<".">> \o replaceDoubleDots(SubSeq(s, 3, Len(s)))
         ELSE <<s[1]>> \o replaceDoubleDots(Tail(s))

\* the first index from i on that holds no whitespace (Len(s) + 1 if none)
RECURSIVE skipSpaces(_, _)
skipSpaces(s, i) ==
    IF i <= Len(s) /\ IsSpace(s[i]) THEN skipSpaces(s, i + 1) ELSE i

\* q.replace(/\s*c\s*/g, c) for a one-character c: scanning left to right, a
\* match is a run of whitespace, c, and a run of whitespace
RECURSIVE replaceSpacesAround(_, _, _)
replaceSpacesAround(s, c, i) ==
    IF i > Len(s) THEN <<>>
    ELSE LET j == skipSpaces(s, i)
         IN  IF j <= Len(s) /\ s[j] = c
             THEN <<c>> \o replaceSpacesAround(s, c, skipSpaces(s, j + 1))
             ELSE <<s[i]>> \o replaceSpacesAround(s, c, i + 1)

\* the steps of normalizePathQuery after the early returns
rootQuery(q) ==
    LET q1 == IF startsWith(q, <<".">>) THEN <<"$">> \o q ELSE q
    IN  IF ~startsWith(q1, <<"$">>) THEN <<"$", ".">> \o q1 ELSE q1

removeDoubleDots(q) == replaceDoubleDots(q)

trimAroundSeparators(q) ==
    replaceSpacesAround(
        replaceSpacesAround(replaceSpacesAround(q, ".", 1), "[", 1), "]", 1)

removeTrailingDot(q) ==
    IF endsWith(q, <<".">>) THEN SubSeq(q, 1, Len(q) - 1) ELSE q

normalizePathQuery(query) ==
    IF query = <<>> THEN Null
    ELSE LET q == trim(query)
         IN  IF q = <<>> \/ q = <<".">> THEN <<"$">>
             ELSE IF q = <<"$">> \/ q = <<"$", ".">> THEN <<"$">>
             ELSE removeTrailingDot(trimAroundSeparators(removeDoubleDots(rootQuery(q))))

(***************************************************************************)
(* Search resolution (the search effect of TreeVisualizer)                 *)
(***************************************************************************)

NO_MATCH == <<"_","_","N","O","_","M","A","T","C","H","_","_">>

\* whether a JavaScript value that is a string or undefined/null is truthy
Truthy(s) == s # Null /\ s # <<>>

\* pathToNode[q], Null standing for undefined
lookup(table, q) ==
    IF \E i \in 1..Len(table) : table[i].path = q
    THEN table[CHOOSE i \in 1..Len(table) : table[i].path = q].id
    ELSE Null

\* Array.prototype.find: the index of the first element whose test is TRUE,
\* 0 if none; tests[i] is the callback's result on the i-th element
findIndex(tests) ==
    LET hits == {i \in 1..Len(tests) : tests[i]}
    IN  IF hits = {} THEN 0 ELSE CHOOSE i \in hits : \A j \in hits : i <= j

\* valueMatches comparing strings without lowering the value's case
valueMatchesCaseSensitive(n, rawLower) ==
    LET v == n.value
    IN  CASE v.type = "null" -> rawLower = <<"n","u","l","l">>
          [] v.type \in {"boolean", "number"} ->
                toLowerCase(primitiveToString(v)) = rawLower
          [] v.type = "string" -> v.str = rawLower \/ includes(v.str, rawLower)
          [] OTHER -> FALSE

\* the predicate of the value-match stage
valueMatches(n, rawLower) ==
    LET v == n.value
    IN  CASE v.type = "null" -> rawLower = <<"n","u","l","l">>
          [] v.type \in {"boolean", "number"} ->
                toLowerCase(primitiveToString(v)) = rawLower
          [] v.type = "string" ->
                toLowerCase(v.str) = rawLower \/ includes(toLowerCase(v.str), rawLower)
          [] OTHER -> FALSE

\* the value-match stage: the id of the first node matching by value, or Null
valueMatch(nodes, rawLower) ==
    LET i == findIndex([k \in 1..Len(nodes) |-> valueMatches(nodes[k], rawLower)])
    IN  IF i = 0 THEN Null ELSE nodes[i].id

\* q without the leading `$.`, `$` or `.`
stripRoot(q) ==
    IF q = <<"$">> THEN <<>>
    ELSE IF startsWith(q, <<"$", ".">>) THEN sliceFrom(q, 2)
    ELSE IF startsWith(q, <<"$">>) THEN sliceFrom(q, 1)
    ELSE IF startsWith(q, <<".">>) THEN sliceFrom(q, 1)
    ELSE q

\* the path fallbacks: alternate exact forms, then suffix, then contains
pathFallback(table, q) ==
    LET qNoRoot == stripRoot(q)
        alt == findIndex([k \in 1..Len(table) |->
                  \/ table[k].path = <<"$">> \o (IF qNoRoot # <<>> THEN <<".">> \o qNoRoot ELSE <<>>)
                  \/ table[k].path = qNoRoot
                  \/ table[k].path = <<"$", ".">> \o qNoRoot])
        m1 == IF alt # 0 THEN lookup(table, table[alt].path) ELSE Null
        suffix == findIndex([k \in 1..Len(table) |->
                  \/ endsWith(table[k].path, <<".">> \o qNoRoot)
                  \/ endsWith(table[k].path, <<"[">> \o qNoRoot \o <<"]">>)
                  \/ endsWith(table[k].path, qNoRoot)])
        m2 == IF ~Truthy(m1) /\ qNoRoot # <<>> /\ suffix # 0
              THEN lookup(table, table[suffix].path) ELSE m1
        contains == findIndex([k \in 1..Len(table) |-> includes(table[k].path, qNoRoot)])
        m3 == IF ~Truthy(m2) /\ qNoRoot # <<>> /\ contains # 0
              THEN lookup(table, table[contains].path) ELSE m2
    IN  m3

\* the id the stages settle on for a normalized query q (Null if none)
matchedIdOf(query, q, nodes, table) ==
    LET m0 == lookup(table, q)
        rawQuery == trim(query)
        rawLower == toLowerCase(rawQuery)
        byValue == IF ~Truthy(m0) /\ rawQuery # <<>>
                   THEN valueMatch(nodes, rawLower) ELSE Null
        m1 == IF Truthy(byValue) THEN byValue ELSE m0
    IN  IF ~Truthy(m1) THEN pathFallback(table, q) ELSE m1

\* noMatch carrying the query without its root
noMatchStripped(q) == NO_MATCH \o stripRoot(q)

noMatch(q) == NO_MATCH \o q

\* the value the search effect gives to `highlighted`
searchResult(query, nodes, table) ==
    IF query = <<>> \/ Len(nodes) = 0 THEN Null
    ELSE LET q == normalizePathQuery(query)
         IN  IF ~Truthy(q) THEN Null
             ELSE LET matchedId == matchedIdOf(query, q, nodes, table)
                  IN  IF Truthy(matchedId) THEN matchedId ELSE noMatch(q)

(***************************************************************************)
(* JSON.parse and JSON.stringify                                           *)
(*                                                                         *)
(* The grammar of RFC 8259 without string escapes and with integer         *)
(* numbers: the texts of the model hold no backslash, fraction or exponent.*)
(***************************************************************************)

IsDigit(c) == \E k \in 1..10 : DigitChars[k] = c

digitValue(c) == (CHOOSE k \in 1..10 : DigitChars[k] = c) - 1

RECURSIVE stringToNat(_)
stringToNat(s) ==
    IF s = <<>> THEN 0
    ELSE 10 * stringToNat(SubSeq(s, 1, Len(s) - 1)) + digitValue(s[Len(s)])

\* whether a property key is an array index, which Object.keys lists first
\* and in ascending order
IsArrayIndex(k) ==
    /\ k # <<>>
    /\ \A i \in 1..Len(k) : IsDigit(k[i])
    /\ (Len(k) > 1 => k[1] # "0")

\* obj[k] = v on the object being parsed: a present key keeps its place, a new
\* array index goes among the indices in ascending order, any other new key
\* goes last
objectSet(members, k, v) ==
    IF \E i \in 1..Len(members) : members[i].key = k
    THEN [i \in 1..Len(members) |->
            IF members[i].key = k THEN Member(k, v) ELSE members[i]]
    ELSE IF IsArrayIndex(k)
         THEN LET before == {i \in 1..Len(members) :
                                /\ IsArrayIndex(members[i].key)
                                /\ stringToNat(members[i].key) < stringToNat(k)}
                  n == Cardinality(before)
              IN  SubSeq(members, 1, n) \o <<Member(k, v)>>
                    \o SubSeq(members, n + 1, Len(members))
         ELSE Append(members, Member(k, v))

parseFail == [ok |-> FALSE, value |-> JNull, pos |-> 0]

parseOk(v, i) == [ok |-> TRUE, value |-> v, pos |-> i]

\* whether the text holds the word w at index i
wordAt(s, i, w) == i + Len(w) - 1 <= Len(s) /\ SubSeq(s, i, i + Len(w) - 1) = w

\* the index after the digits from i on
RECURSIVE skipDigits(_, _)
skipDigits(s, i) ==
    IF i <= Len(s) /\ IsDigit(s[i]) THEN skipDigits(s, i + 1) ELSE i

\* a number at index i: an optional minus and digits without a leading zero
parseNumber(s, i) ==
    LET neg == i <= Len(s) /\ s[i] = "-"
        from == IF neg THEN i + 1 ELSE i
        to == skipDigits(s, from)
        digits == SubSeq(s, from, to - 1)
    IN  IF digits = <<>> \/ (Len(digits) > 1 /\ digits[1] = "0")
        THEN parseFail
        ELSE parseOk(JNum(IF neg THEN -stringToNat(digits) ELSE stringToNat(digits)), to)

\* the index of the closing quote of the string whose content starts at i,
\* 0 if there is none or a control character comes first
RECURSIVE closingQuote(_, _)
closingQuote(s, i) ==
    IF i > Len(s) \/ s[i] \in {"\n", "\t", "\r", "\\"} THEN 0
    ELSE IF s[i] = "\"" THEN i
    ELSE closingQuote(s, i + 1)

\* the characters of the string whose opening quote is at index i
parseString(s, i) ==
    LET close == closingQuote(s, i + 1)
    IN  IF close = 0 THEN parseFail
        ELSE parseOk(JStr(SubSeq(s, i + 1, close - 1)), close + 1)

RECURSIVE parseValue(_, _)
RECURSIVE parseMembers(_, _, _)
RECURSIVE parseElements(_, _, _)
parseValue(s, i0) ==
    LET i == skipSpaces(s, i0)
    IN  IF i > Len(s) THEN parseFail
        ELSE IF s[i] = "{" THEN
                LET j == skipSpaces(s, i + 1)
                IN  IF j <= Len(s) /\ s[j] = "}" THEN parseOk(JObj(<<>>), j + 1)
                    ELSE parseMembers(s, i + 1, <<>>)
        ELSE IF s[i] = "[" THEN
                LET j == skipSpaces(s, i + 1)
                IN  IF j <= Len(s) /\ s[j] = "]" THEN parseOk(JArr(<<>>), j + 1)
                    ELSE parseElements(s, i + 1, <<>>)
        ELSE IF s[i] = "\"" THEN parseString(s, i)
        ELSE IF s[i] = "-" \/ IsDigit(s[i]) THEN parseNumber(s, i)
        ELSE IF wordAt(s, i, <<"t","r","u","e">>) THEN parseOk(JBool(TRUE), i + 4)
        ELSE IF wordAt(s, i, <<"f","a","l","s","e">>) THEN parseOk(JBool(FALSE), i + 5)
        ELSE IF wordAt(s, i, <<"n","u","l","l">>) THEN parseOk(JNull, i + 4)
        ELSE parseFail

\* the members of an object from index i0 on, up to and with the closing brace
parseMembers(s, i0, members) ==
    LET i == skipSpaces(s, i0)
    IN  IF i > Len(s) \/ s[i] # "\"" THEN parseFail
        ELSE LET k == parseString(s, i)
                 c == skipSpaces(s, k.pos)
             IN  IF ~k.ok \/ c > Len(s) \/ s[c] # ":" THEN parseFail
                 ELSE LET v == parseValue(s, c + 1)
                          d == skipSpaces(s, v.pos)
                          ms == objectSet(members, k.value.str, v.value)
                      IN  IF ~v.ok \/ d > Len(s) THEN parseFail
                          ELSE IF s[d] = "}" THEN parseOk(JObj(ms), d + 1)
                          ELSE IF s[d] = "," THEN parseMembers(s, d + 1, ms)
                          ELSE parseFail

\* the elements of an array from index i0 on, up to and with the closing bracket
parseElements(s, i0, elems) ==
    LET v == parseValue(s, i0)
        d == skipSpaces(s, v.pos)
    IN  IF ~v.ok \/ d > Len(s) THEN parseFail
        ELSE IF s[d] = "]" THEN parseOk(JArr(Append(elems, v.value)), d + 1)
        ELSE IF s[d] = "," THEN parseElements(s, d + 1, Append(elems, v.value))
        ELSE parseFail

\* JSON.parse(text): ok is FALSE where JSON.parse throws
JSONparse(text) ==
    LET r == parseValue(text, 1)
    IN  IF r.ok /\ skipSpaces(text, r.pos) > Len(text) THEN r ELSE parseFail

\* err.message of the SyntaxError JSON.parse throws
SyntaxErrorMessage == <<"U","n","e","x","p","e","c","t","e","d"," ","t","o","k","e","n">>

RECURSIVE repeatSpaces(_)
repeatSpaces(n) == IF n = 0 THEN <<>> ELSE <<" ">> \o repeatSpaces(n - 1)

RECURSIVE joinLines(_, _)
joinLines(parts, sep) ==
    IF Len(parts) = 0 THEN <<>>
    ELSE IF Len(parts) = 1 THEN parts[1]
    ELSE parts[1] \o sep \o joinLines(Tail(parts), sep)

quote(s) == <<"\"">> \o s \o <<"\"">>

\* JSON.stringify(value, null, indent) at nesting depth `level`; indent = 0
\* is the compact JSON.stringify(value)
RECURSIVE stringify(_, _, _)
stringify(v, indent, level) ==
    LET pad(l) == IF indent = 0 THEN <<>> ELSE <<"\n">> \o repeatSpaces(indent * l)
        colon == IF indent = 0 THEN <<":">> ELSE <<":", " ">>
        wrap(open, parts, close) ==
            IF Len(parts) = 0 THEN <<open, close>>
            ELSE <<open>> \o pad(level + 1) \o joinLines(parts, <<",">> \o pad(level + 1))
                   \o pad(level) \o <<close>>
    IN  CASE v.type = "object" ->
                wrap("{", [i \in 1..Len(v.members) |->
                              quote(v.members[i].key) \o colon
                                \o stringify(v.members[i].value, indent, level + 1)], "}")
          [] v.type = "array" ->
                wrap("[", [i \in 1..Len(v.elems) |->
                              stringify(v.elems[i], indent, level + 1)], "]")
          [] v.type = "string" -> quote(v.str)
          [] OTHER -> primitiveToString(v)

(***************************************************************************)
(* Documents, texts and queries                                            *)
(***************************************************************************)

\* the text the Load sample button inserts
LoadSampleText ==
    <<"{","\n"," "," ","\"","u","s","e","r","\"",":"," ","{","\n"," "," ",
      " "," ","\"","i","d","\"",":"," ","1",",","\n"," "," "," "," ","\"",
      "n","a","m","e","\"",":"," ","\"","J","o","h","n"," ","D","o","e",
      "\"",",","\n"," "," "," "," ","\"","a","d","d","r","e","s","s","\"",
      ":"," ","{"," ","\"","c","i","t","y","\"",":"," ","\"","N","e","w",
      " ","Y","o","r","k","\"",","," ","\"","c","o","u","n","t","r","y",
      "\"",":"," ","\"","U","S","A","\""," ","}","\n"," "," ","}",",","\n",
      " "," ","\"","i","t","e","m","s","\"",":"," ","[","{"," ","\"","n",
      "a","m","e","\"",":"," ","\"","i","t","e","m","1","\""," ","}",",",
      " ","{"," ","\"","n","a","m","e","\"",":"," ","\"","i","t","e","m",
      "2","\""," ","}","]","\n","}">>

\* the document of sample.json
SampleJson ==
    JObj(<<Member(<<"u","s","e","r">>, JObj(<<
        Member(<<"i","d">>, JNum(1)),
        Member(<<"n","a","m","e">>, JStr(<<"J","o","h","n"," ","D","o","e">>)),
        Member(<<"a","d","d","r","e","s","s">>, JObj(<<
            Member(<<"c","i","t","y">>, JStr(<<"N","e","w"," ","Y","o","r","k">>)),
            Member(<<"c","o","u","n","t","r","y">>, JStr(<<"U","S","A">>))>>))>>))>>)

\* the initial text of the editor: JSON.stringify(sampleJson, null, 2)
InitialText == stringify(SampleJson, 2, 0)

ItemsText ==
    <<"{","\"","i","t","e","m","s","\"",":","[","{","\"","n","a","m","e",
      "\"",":","\"","i","t","e","m","1","\"","}",",","{","\"","n","a","m",
      "e","\"",":","\"","i","t","e","m","2","\"","}","]","}">>

MalformedText == <<"{","\"","a","\"",":","}">>

ZeroText == <<"0">>

\* {"b":{"c":0,"d":[]},"1":0}: an integer-like key written after another key
IndexKeyText ==
    <<"{","\"","b","\"",":","{","\"","c","\"",":","0",",","\"","d","\"",":",
      "[","]","}",",","\"","1","\"",":","0","}">>

NestedText == <<"{","\"","x","\"",":","{","\"","a","\"",":","1","}",",","\"","a","\"",
      ":","\"","x","\"","}">>

\* the texts a user types or pastes into the editor
EditTexts == {LoadSampleText, ItemsText, MalformedText, ZeroText, NestedText, <<>>}

Q_root == <<"$">>
Q_city == <<"u","s","e","r",".","a","d","d","r","e","s","s",".","c","i","t","y">>
Q_itemName == <<"i","t","e","m","s","[","0","]",".","n","a","m","e">>
Q_usa == <<"U","S","A">>
Q_absent == <<"z","z","z","-","n","o","t","-","p","r","e","s","e","n","t">>
Q_a == <<"a">>

\* the texts a user types into the search box
AppQueries == {<<>>, Q_root, Q_city, Q_itemName, Q_usa, Q_absent, Q_a}

(***************************************************************************)
(* The effects of TreeVisualizer                                           *)
(***************************************************************************)

emptyTree == [nodes |-> <<>>, edges |-> <<>>, pathToNode |-> <<>>]

\* the rebuild effect: what it sets rfNodes, rfEdges and pathToNode to
rebuildEffect(data) == IF Falsy(data) THEN emptyTree ELSE buildTreeNodes(data)

\* the local q of the search effect
searchEffectQuery(query, nodes) ==
    IF query = <<>> \/ Len(nodes) = 0 THEN Null ELSE normalizePathQuery(query)

\* useEffect compares its dependencies with Object.is: a parsed object or
\* array is a new object on every parse, a primitive is compared by value
dataChanged(old, new) == nodeType(new) # "primitive" \/ new # old

\* The rebuild effect runs on the new data and, as it replaces rfNodes and
\* pathToNode, the search effect runs after it on the new node list.
RunRebuild(data, query) ==
    LET tree == rebuildEffect(data)
    IN  /\ rfNodes' = tree.nodes
        /\ rfEdges' = tree.edges
        /\ pathToNode' = tree.pathToNode
        /\ highlighted' = searchResult(query, tree.nodes, tree.pathToNode)
        /\ normalized' = searchEffectQuery(query, tree.nodes)

(***************************************************************************)
(* App: the editor, the buttons and the search box                         *)
(***************************************************************************)

\* handleVisualize leaving parsedData as it was when the parse fails
handleVisualizeKeepsData(text, old) ==
    LET r == JSONparse(text)
    IN  IF r.ok THEN [parsedData |-> r.value, error |-> Null]
        ELSE [parsedData |-> old, error |-> SyntaxErrorMessage]

\* handleVisualize(text): the values it sets parsedData and error to
handleVisualizeState(text, old) ==
    LET r == JSONparse(text)
    IN  IF r.ok THEN [parsedData |-> r.value, error |-> Null]
        ELSE [parsedData |-> JNull, error |-> SyntaxErrorMessage]

\* the state after the mount effects: the initial sample is parsed and shown
Init ==
    LET tree == rebuildEffect(SampleJson)
    IN  /\ jsonText = InitialText
        /\ parsedData = SampleJson
        /\ error = Null
        /\ searchQuery = <<>>
        /\ rfNodes = tree.nodes
        /\ rfEdges = tree.edges
        /\ pathToNode = tree.pathToNode
        /\ highlighted = Null
        /\ normalized = Null
        /\ hasClipboard = TRUE
        /\ writes = <<>>
        /\ timers = <<>>
        /\ pc = "app"

\* JsonEditor: the textarea's onChange
EditText(text) ==
    /\ text # jsonText
    /\ jsonText' = text
    /\ error' = Null
    /\ UNCHANGED <<parsedData, searchQuery, rfNodes, rfEdges, pathToNode,
                   highlighted, normalized, hasClipboard, writes, timers, pc>>

\* the Generate Tree button: handleVisualize(jsonText)
Visualize ==
    LET s == handleVisualizeState(jsonText, parsedData)
    IN  /\ parsedData' = s.parsedData
        /\ error' = s.error
        /\ IF dataChanged(parsedData, s.parsedData)
           THEN RunRebuild(s.parsedData, searchQuery)
           ELSE UNCHANGED <<rfNodes, rfEdges, pathToNode, highlighted, normalized>>
        /\ UNCHANGED <<jsonText, searchQuery, hasClipboard, writes, timers, pc>>

\* the Clear button: handleClear
Clear ==
    /\ jsonText' = <<>>
    /\ parsedData' = JNull
    /\ error' = Null
    /\ IF dataChanged(parsedData, JNull)
       THEN RunRebuild(JNull, searchQuery)
       ELSE UNCHANGED <<rfNodes, rfEdges, pathToNode, highlighted, normalized>>
    /\ UNCHANGED <<searchQuery, hasClipboard, writes, timers, pc>>

\* the Load sample button
LoadSample ==
    /\ jsonText' = LoadSampleText
    /\ error' = Null
    /\ UNCHANGED <<parsedData, searchQuery, rfNodes, rfEdges, pathToNode,
                   highlighted, normalized, hasClipboard, writes, timers, pc>>

\* the search box's onChange, and the search effect it triggers
SetSearchQuery(query) ==
    /\ query # searchQuery
    /\ searchQuery' = query
    /\ highlighted' = searchResult(query, rfNodes, pathToNode)
    /\ normalized' = searchEffectQuery(query, rfNodes)
    /\ UNCHANGED <<jsonText, parsedData, error, rfNodes, rfEdges, pathToNode,
                   hasClipboard, writes, timers, pc>>

Next ==
    \/ \E text \in EditTexts : EditText(text)
    \/ Visualize
    \/ Clear
    \/ LoadSample
    \/ \E query \in AppQueries : SetSearchQuery(query)

Spec == Init /\ [][Next]_vars

(***************************************************************************)
(* TreeVisualizer on any document: the rebuild effect, then the search     *)
(* effect on a query                                                       *)
(***************************************************************************)

\* the largest number of values (nodes) of a generated document
MaxNodes == 3

\* the keys of generated objects: two plain ones and the empty key
GenKeys == {<<"a">>, <<"b">>, <<>>}

\* the leaves of generated documents
GenLeaves ==
    {JStr(<<"a", "B">>), JNum(0), JNull, JObj(<<>>), JArr(<<>>)}

\* whether ks is a possible Object.keys order: distinct keys, the array
\* indices first and ascending
IsKeyOrder(ks) ==
    /\ \A i, j \in 1..Len(ks) : i < j => ks[i] # ks[j]
    /\ \A i, j \in 1..Len(ks) : i < j =>
          /\ IsArrayIndex(ks[j]) => IsArrayIndex(ks[i])
          /\ IsArrayIndex(ks[i]) /\ IsArrayIndex(ks[j])
                => stringToNat(ks[i]) < stringToNat(ks[j])

KeySeqs(n) == {ks \in [1..n -> GenKeys] : IsKeyOrder(ks)}

\* DocsOfSize(n): the documents of exactly n values; ForestsOfSize(m): the
\* sequences of documents of m values together
RECURSIVE DocsOfSize(_)
RECURSIVE ForestsOfSize(_)
DocsOfSize(n) ==
    IF n = 1 THEN GenLeaves
    ELSE LET fs == ForestsOfSize(n - 1)
         IN  {JArr(f) : f \in fs}
               \cup UNION {{JObj([i \in 1..Len(f) |-> Member(ks[i], f[i])]) :
                              ks \in KeySeqs(Len(f))} : f \in fs}

ForestsOfSize(m) ==
    IF m = 0 THEN {<<>>}
    ELSE UNION {{<<d>> \o f : d \in DocsOfSize(k), f \in ForestsOfSize(m - k)} :
                  k \in 1..m}

\* documents written out: those of the App texts, one whose keys are not
\* enumerated as they are written, a key holding a dot or an underscore beside
\* the nesting it reads like, and strings, numbers and booleans that differ
\* in case, spacing and digits
ExplicitDocs ==
    {SampleJson, JSONparse(LoadSampleText).value, JSONparse(ItemsText).value,
     JSONparse(NestedText).value, JSONparse(IndexKeyText).value,
     JObj(<<Member(<<"a", ".", "b">>, JNum(0)),
            Member(<<"a">>, JObj(<<Member(<<"b">>, JNum(0))>>))>>),
     JObj(<<Member(<<"a", "_", "b">>, JNum(0)),
            Member(<<"a">>, JObj(<<Member(<<"b">>, JNum(0))>>))>>),
     JObj(<<Member(<<"a">>, JArr(<<JNum(0)>>)), Member(<<"a", "_", "0">>, JNum(0))>>),
     JArr(<<JNum(10), JStr(<<"1">>), JBool(TRUE), JArr(<<JNull>>)>>),
     JArr(<<JBool(FALSE), JStr(<<"F", "a", "l", "s", "e">>)>>),
     JArr(<<JStr(<<"a", "b">>), JStr(<<"x", " ", "a", "b">>)>>),
     JStr(<<"a", "B">>), JNum(1), JBool(TRUE)}

TreeDocs == UNION {DocsOfSize(n) : n \in 1..MaxNodes} \cup ExplicitDocs

TreeQueries ==
    {Q_root, Q_city, Q_itemName, Q_usa, Q_absent, Q_a,
     <<"$", "a">>, <<"$", ".", "a">>, <<"a", ".", "b">>, <<"b">>,
     <<"a", "b">>, <<"A", "B">>, <<" ", "a", "b">>, <<"B", " ">>,
     <<"0">>, <<"1">>, <<"f", "a", "l", "s", "e">>, <<"N", "u", "l", "l">>,
     <<"[", "0", "]">>, <<"$", "[", "0", "]">>, <<".">>, <<" ">>}

InitTree ==
    /\ parsedData \in TreeDocs
    /\ jsonText = <<>>
    /\ error = Null
    /\ searchQuery = <<>>
    /\ rfNodes = <<>>
    /\ rfEdges = <<>>
    /\ pathToNode = <<>>
    /\ highlighted = Null
    /\ normalized = Null
    /\ hasClipboard = TRUE
    /\ writes = <<>>
    /\ timers = <<>>
    /\ pc = "data"

\* the rebuild effect on the data prop (and the search effect after it, which
\* finds the query empty)
TreeRebuild ==
    /\ pc = "data"
    /\ RunRebuild(parsedData, searchQuery)
    /\ pc' = "built"
    /\ UNCHANGED <<jsonText, parsedData, error, searchQuery, hasClipboard,
                   writes, timers>>

\* the search effect on a new searchQuery prop
TreeSearch(query) ==
    /\ pc = "built"
    /\ searchQuery' = query
    /\ highlighted' = searchResult(query, rfNodes, pathToNode)
    /\ normalized' = searchEffectQuery(query, rfNodes)
    /\ pc' = "searched"
    /\ UNCHANGED <<jsonText, parsedData, error, rfNodes, rfEdges, pathToNode,
                   hasClipboard, writes, timers>>

NextTree ==
    \/ TreeRebuild
    \/ \E query \in TreeQueries : TreeSearch(query)

SpecTree == InitTree /\ [][NextTree]_vars

(***************************************************************************)
(* normalizePathQuery on any query                                         *)
(***************************************************************************)

\* the longest generated query
MaxQueryLen == 4

QueryAlphabet == {"$", ".", " ", "[", "]", "a"}

GenQueries == UNION {[1..n -> QueryAlphabet] : n \in 1..MaxQueryLen}

InitNormalize ==
    /\ searchQuery \in GenQueries
    /\ parsedData = JNull
    /\ jsonText = <<>>
    /\ error = Null
    /\ rfNodes = <<>>
    /\ rfEdges = <<>>
    /\ pathToNode = <<>>
    /\ highlighted = Null
    /\ normalized = Null
    /\ hasClipboard = TRUE
    /\ writes = <<>>
    /\ timers = <<>>
    /\ pc = "query"

\* const q = normalizePathQuery(searchQuery)
Normalize ==
    /\ pc = "query"
    /\ normalized' = normalizePathQuery(searchQuery)
    /\ pc' = "normalized"
    /\ UNCHANGED <<jsonText, parsedData, error, searchQuery, rfNodes, rfEdges,
                   pathToNode, highlighted, hasClipboard, writes, timers>>

NextNormalize == Normalize

SpecNormalize == InitNormalize /\ [][NextNormalize]_vars

(***************************************************************************)
(* TreeVisualizer under clicks: onNodeClick, the clipboard promise, the    *)
(* revert timer, and the search effect                                     *)
(***************************************************************************)

\* the most clipboard writes, and the most pending timers, of a run
MaxClicks == 2

ClickDocs == {JSONparse(NestedText).value, JArr(<<JStr(<<"a", "B">>)>>)}

ClickQueries == {<<>>, Q_a, Q_absent}

InitClick ==
    /\ parsedData \in ClickDocs
    /\ hasClipboard \in BOOLEAN
    /\ jsonText = <<>>
    /\ error = Null
    /\ searchQuery = <<>>
    /\ rfNodes = rebuildEffect(parsedData).nodes
    /\ rfEdges = rebuildEffect(parsedData).edges
    /\ pathToNode = rebuildEffect(parsedData).pathToNode
    /\ highlighted = Null
    /\ normalized = Null
    /\ writes = <<>>
    /\ timers = <<>>
    /\ pc = "mounted"

\* the callback of navigator.clipboard.writeText(path).then, and the
\* fallback without a clipboard: highlight the node, start the revert timer
flash(id) ==
    /\ highlighted' = id
    /\ timers' = Append(timers, id)

\* onNodeClick(event, node) for the i-th node of the list
NodeClick(i) ==
    /\ IF hasClipboard
       THEN /\ Len(writes) < MaxClicks
            /\ writes' = Append(writes, [id |-> rfNodes[i].id, state |-> "pending"])
            /\ UNCHANGED <<highlighted, timers>>
       ELSE /\ Len(timers) < MaxClicks
            /\ flash(rfNodes[i].id)
            /\ UNCHANGED writes
    /\ UNCHANGED <<jsonText, parsedData, error, searchQuery, rfNodes, rfEdges,
                   pathToNode, normalized, hasClipboard, pc>>

\* the k-th clipboard write succeeds: its then callback runs
ClipboardFulfilled(k) ==
    /\ writes[k].state = "pending"
    /\ writes' = [writes EXCEPT ![k].state = "fulfilled"]
    /\ flash(writes[k].id)
    /\ UNCHANGED <<jsonText, parsedData, error, searchQuery, rfNodes, rfEdges,
                   pathToNode, normalized, hasClipboard, pc>>

\* the k-th clipboard write fails: its catch callback runs, which is empty
ClipboardRejected(k) ==
    /\ writes[k].state = "pending"
    /\ writes' = [writes EXCEPT ![k].state = "rejected"]
    /\ UNCHANGED <<jsonText, parsedData, error, searchQuery, rfNodes, rfEdges,
                   pathToNode, highlighted, normalized, hasClipboard, timers, pc>>

\* the oldest pending revert timer fires: setHighlighted(null)
TimerFires ==
    /\ timers # <<>>
    /\ highlighted' = Null
    /\ timers' = Tail(timers)
    /\ UNCHANGED <<jsonText, parsedData, error, searchQuery, rfNodes, rfEdges,
                   pathToNode, normalized, hasClipboard, writes, pc>>

NextClick ==
    \/ \E i \in 1..Len(rfNodes) : NodeClick(i)
    \/ \E k \in 1..Len(writes) : ClipboardFulfilled(k)
    \/ \E k \in 1..Len(writes) : ClipboardRejected(k)
    \/ TimerFires
    \/ \E query \in ClickQueries : SetSearchQuery(query)

SpecClick == InitClick /\ [][NextClick]_vars

(***************************************************************************)
(* The properties                                                          *)
(***************************************************************************)

RECURSIVE concatAll(_)
concatAll(seqs) == IF Len(seqs) = 0 THEN <<>> ELSE Head(seqs) \o concatAll(Tail(seqs))

\* the child values of a JSON value, in key order or index order
kidsOf(v) ==
    IF v.type = "array" THEN v.elems
    ELSE IF v.type = "object" THEN [i \in 1..Len(v.members) |-> v.members[i].value]
    ELSE <<>>

\* the values reachable in a document, parents before children
RECURSIVE valuesOf(_)
valuesOf(v) ==
    <<v>> \o concatAll([i \in 1..Len(kidsOf(v)) |-> valuesOf(kidsOf(v)[i])])

\* the paths of the values of a document in the same order, written as the
\* path syntax has them: `$`, parent.key, parent[index]
RECURSIVE pathsOf(_, _)
pathsOf(v, path) ==
    <<path>> \o concatAll([i \in 1..Len(kidsOf(v)) |->
        pathsOf(kidsOf(v)[i],
                IF v.type = "object"
                THEN path \o <<".">> \o v.members[i].key
                ELSE path \o <<"[">> \o numberToString(i - 1) \o <<"]">>)])

nodeIds == {rfNodes[i].id : i \in 1..Len(rfNodes)}

\* the tree buildTreeNodes returns for the document: the one displayed, or,
\* for a falsy root, which the rebuild effect does not pass on, the one a
\* direct call returns
builtTree ==
    IF Falsy(parsedData) THEN buildTreeNodes(parsedData)
    ELSE [nodes |-> rfNodes, edges |-> rfEdges, pathToNode |-> pathToNode]

\* C1: for every JSON value given to buildTreeNodes, the node list holds
\* exactly one node per reachable value (root and empty containers
\* included), the edge list one edge per parent-child relationship, each
\* joining a parent's node to a child's node, and there is one node more
\* than there are edges.
C1_OneNodePerValue ==
    pc # "data" =>
        LET nodes == builtTree.nodes
            edges == builtTree.edges
        IN  /\ [i \in 1..Len(nodes) |-> nodes[i].value] = valuesOf(parsedData)
            /\ Len(edges) = Len(valuesOf(parsedData)) - 1
            /\ Len(nodes) = Len(edges) + 1
            /\ \A e \in 1..Len(edges) : \E i, j \in 1..Len(nodes) :
                  /\ nodes[i].id = edges[e].source
                  /\ nodes[j].id = edges[e].target
                  /\ \E c \in 1..Len(kidsOf(nodes[i].value)) :
                        kidsOf(nodes[i].value)[c] = nodes[j].value

\* a built tree with nested containers, siblings and an empty container
C1_Witness ==
    /\ pc = "built"
    /\ Len(rfNodes) >= 3
    /\ Len(rfEdges) = Len(rfNodes) - 1
    /\ \E i \in 1..Len(rfNodes) : rfNodes[i].value \in {JObj(<<>>), JArr(<<>>)}
    /\ \E i \in 2..Len(rfNodes) : Len(kidsOf(rfNodes[i].value)) > 0

\* C2: the path of every node is `$` for the root, the parent's path
\* followed by `.` and the key for an object member (`$.k` below the root),
\* and the parent's path followed by `[i]` for an array element.
C2_PathsAsDocumented ==
    (pc # "data" /\ ~Falsy(parsedData)) =>
        [i \in 1..Len(rfNodes) |-> rfNodes[i].path] = pathsOf(parsedData, <<"$">>)

\* C3: the path table has as many entries as there are nodes, and every id
\* stored in it is the id of a node of the node list.
C3_TableMatchesNodes ==
    pc # "data" =>
        /\ Len(pathToNode) = Len(rfNodes)
        /\ \A k \in 1..Len(pathToNode) : pathToNode[k].id \in nodeIds

\* C4: a query that is the path of an existing location written without the
\* `$` root resolves to the node of that location, whose path is `$.`
\* followed by the query.
C4_RelativePathResolves ==
    (Len(rfNodes) > 0 /\ searchQuery # <<>>) =>
        \A i \in 1..Len(rfNodes) :
            pathsOf(parsedData, <<"$">>)[i] = <<"$", ".">> \o searchQuery =>
                /\ highlighted = rfNodes[i].id
                /\ rfNodes[i].path = <<"$", ".">> \o searchQuery

\* C5: whenever a document is loaded, whatever the kind of its root value,
\* the query `$` resolves to the root node's id.
C5_RootQueryResolves ==
    (pc = "app" /\ parsedData # JNull /\ searchQuery = Q_root) =>
        highlighted = makeNodeId(<<"$">>)

\* whether a value matches a lower-cased query by value: a string when it
\* equals or contains it, a number or boolean when its text equals it, null
\* for the query `null`, an object or array never
matchesByValue(v, query) ==
    \/ v.type = "string" /\ (toLowerCase(v.str) = query \/ includes(toLowerCase(v.str), query))
    \/ v.type \in {"number", "boolean"} /\ toLowerCase(primitiveToString(v)) = query
    \/ v.type = "null" /\ query = <<"n","u","l","l">>

\* the first node of the list matching the query by value decides the search
firstValueMatchWins(query) ==
    LET hits == {i \in 1..Len(rfNodes) : matchesByValue(rfNodes[i].value, query)}
    IN  hits # {} =>
            highlighted = rfNodes[CHOOSE i \in hits : \A j \in hits : i <= j].id

\* the state after a search on a non-empty node list whose normalized query
\* is no key of the path table
searchedPastExactMatch ==
    /\ pc = "searched"
    /\ Len(rfNodes) > 0
    /\ searchQuery # <<>>
    /\ lookup(pathToNode, normalized) = Null

\* C6 as stated: when the normalized query is no key of the path table, the
\* result is the first node in traversal order whose primitive value matches
\* the raw query, case-insensitively.
C6_ValueMatchOnRawQuery ==
    searchedPastExactMatch => firstValueMatchWins(toLowerCase(searchQuery))

\* C6 as amended: as above, for the raw query with the whitespace at its
\* ends removed.
C6_ValueMatchOnTrimmedQuery ==
    searchedPastExactMatch => firstValueMatchWins(toLowerCase(trim(searchQuery)))

\* a string that contains the query in another case wins over a path that
\* the fallbacks would have matched
C6_Witness ==
    /\ searchedPastExactMatch
    /\ \E i \in 2..Len(rfNodes) :
          /\ highlighted = rfNodes[i].id
          /\ rfNodes[i].value.type = "string"
          /\ rfNodes[i].value.str # trim(searchQuery)
          /\ toLowerCase(rfNodes[i].value.str) # toLowerCase(trim(searchQuery))
    /\ \E k \in 1..Len(pathToNode) :
          /\ endsWith(pathToNode[k].path, stripRoot(normalized))
          /\ pathToNode[k].id # highlighted

C8_ErrorClearsTree ==
    [][ /\ (Visualize /\ ~JSONparse(jsonText).ok) => error' = SyntaxErrorMessage
        /\ error' # Null => (rfNodes' = <<>> /\ rfEdges' = <<>>) ]_vars

\* an error shown for the malformed text, the tree shown before it cleared
C8_Witness ==
    /\ pc = "app"
    /\ jsonText = MalformedText
    /\ error = SyntaxErrorMessage
    /\ parsedData = JNull
    /\ rfNodes = <<>>
    /\ rfEdges = <<>>

\* C9: when the clipboard write of a click fails, the clicked node is
\* highlighted and its revert timer started, as when the write succeeds.
C9_FailedCopyStillFlashes ==
    [][ \A k \in 1..Len(writes) :
          (writes[k].state = "pending" /\ writes'[k].state = "rejected") =>
              (highlighted' = writes[k].id /\ timers' = Append(timers, writes[k].id)) ]_vars

hasSpaceBeside(s, c) ==
    \E i \in 1..Len(s) :
        /\ s[i] = c
        /\ \/ (i > 1 /\ IsSpace(s[i - 1]))
           \/ (i < Len(s) /\ IsSpace(s[i + 1]))

\* C10: for every non-empty query the output of normalizePathQuery starts
\* with `$`, holds no two consecutive dots, has no whitespace next to `.`,
\* `[` or `]`, and does not end with a dot.
C10_NormalizedShape ==
    pc = "normalized" =>
        /\ startsWith(normalized, <<"$">>)
        /\ ~includes(normalized, <<".", ".">>)
        /\ \A c \in {".", "[", "]"} : ~hasSpaceBeside(normalized, c)
        /\ ~endsWith(normalized, <<".">>)

\* a step in which a click highlights its node: the click itself where there
\* is no clipboard, the then callback of its clipboard write where there is
clickHighlights ==
    \/ ~hasClipboard /\ \E i \in 1..Len(rfNodes) : NodeClick(i)
    \/ \E k \in 1..Len(writes) : ClipboardFulfilled(k)

\* a step in which a query change highlights the node it resolves to
searchHighlights ==
    /\ \E query \in ClickQueries : SetSearchQuery(query)
    /\ highlighted' \in nodeIds

\* C11: a highlight request cancels the pending revert timer of any earlier
\* click. After a click has highlighted its node its own timer is the only
\* one pending, after a search match none is, and a timer that fires on a
\* highlighted node is the timer of the click that highlighted it: a firing
\* timer is the moment 1200 ms after its click, so a click's highlight stays
\* until then and no later highlight is cleared by an earlier click's timer.
C11_HighlightCancelsEarlierTimer ==
    [][ /\ clickHighlights => Len(timers') = 1
        /\ searchHighlights => timers' = <<>>
        /\ (TimerFires /\ highlighted \in nodeIds) =>
              (Len(timers) = 1 /\ highlighted = Head(timers)) ]_vars

\* what the document says of each of its values, in the order of valuesOf:
\* the index of its parent (0 for the root), its depth, the index of the last
\* value of its subtree, and whether it is a leaf (a primitive or an empty
\* container)
RECURSIVE treeFacts(_, _, _, _)
RECURSIVE forestFacts(_, _, _, _)
treeFacts(v, index, parent, depth) ==
    LET below == forestFacts(kidsOf(v), index + 1, index, depth + 1)
    IN  <<[parent |-> parent, depth |-> depth, last |-> index + Len(below),
           leaf |-> kidsOf(v) = <<>>, value |-> v]>> \o below

forestFacts(kids, index, parent, depth) ==
    IF kids = <<>> THEN <<>>
    ELSE LET first == treeFacts(Head(kids), index, parent, depth)
         IN  first \o forestFacts(Tail(kids), index + Len(first), parent, depth)

\* the index of the c-th child of the i-th value
childAt(facts, i, c) ==
    LET kids == {j \in (i + 1)..facts[i].last : facts[j].parent = i}
    IN  CHOOSE j \in kids : Cardinality({k \in kids : k < j}) = c - 1

centreX(node) == node.x + HALF_NODE_WIDTH

\* the object that results from inserting members in the order p
RECURSIVE insertAll(_, _, _)
insertAll(members, p, acc) ==
    IF p = <<>> THEN acc
    ELSE insertAll(members, Tail(p),
                   objectSet(acc, members[Head(p)].key, members[Head(p)].value))

\* the orders of insertion that give an object its members, each a sequence
\* of member numbers
insertionOrders(members) ==
    {p \in [1..Len(members) -> 1..Len(members)] :
        /\ \A c, d \in 1..Len(members) : c # d => p[c] # p[d]
        /\ insertAll(members, p, <<>>) = members}

\* the order in which Object.keys enumerates the members, or an array holds
\* its elements
enumerationOrder(v) == [c \in 1..Len(kidsOf(v)) |-> c]

childrenDescend(nodes, facts) ==
    \A j \in 2..Len(nodes) : nodes[j].y = nodes[facts[j].parent].y + LEVEL_GAP

\* the children of the i-th value have strictly increasing X in the order p
childrenAscend(nodes, facts, i, p) ==
    \A c, d \in 1..Len(p) :
        c < d => centreX(nodes[childAt(facts, i, p[c])])
                    < centreX(nodes[childAt(facts, i, p[d])])

containersCentred(nodes, facts) ==
    \A i \in 1..Len(nodes) :
        LET leaves == {j \in i..facts[i].last : facts[j].leaf}
            first == CHOOSE j \in leaves : \A k \in leaves : j <= k
            last == CHOOSE j \in leaves : \A k \in leaves : k <= j
        IN  /\ Cardinality(leaves) = measure(facts[i].value)
            /\ centreX(nodes[last]) - centreX(nodes[first])
                  = (Cardinality(leaves) - 1) * COLUMN_GAP
            /\ 2 * centreX(nodes[i]) = centreX(nodes[first]) + centreX(nodes[last])

levelsSpaced(nodes, facts) ==
    \A i, j \in 1..Len(nodes) :
        (i # j /\ facts[i].depth = facts[j].depth) =>
            \/ centreX(nodes[i]) + COLUMN_GAP <= centreX(nodes[j])
            \/ centreX(nodes[j]) + COLUMN_GAP <= centreX(nodes[i])

\* C12 as stated: every child's Y is its parent's Y plus the vertical
\* spacing; the children of a container have strictly increasing X in the
\* order the keys of an object were inserted, or in index order for an
\* array; every subtree spans as many leaf columns as measure counts, one
\* column gap apart, and its root is centred on the span; two nodes of the
\* same depth are at least one column gap apart.
C12_LayoutInInsertionOrder ==
    pc # "data" =>
        LET nodes == builtTree.nodes
            facts == treeFacts(parsedData, 1, 0, 0)
        IN  /\ Len(nodes) = Len(facts)
            /\ childrenDescend(nodes, facts)
            /\ \A i \in 1..Len(nodes) :
                  IF facts[i].value.type = "object"
                  THEN \A p \in insertionOrders(facts[i].value.members) :
                          childrenAscend(nodes, facts, i, p)
                  ELSE childrenAscend(nodes, facts, i, enumerationOrder(facts[i].value))
            /\ containersCentred(nodes, facts)
            /\ levelsSpaced(nodes, facts)

\* C12 as amended: as above, with the children of an object in the order
\* Object.keys enumerates its keys.
C12_LayoutInEnumerationOrder ==
    pc # "data" =>
        LET nodes == builtTree.nodes
            facts == treeFacts(parsedData, 1, 0, 0)
        IN  /\ Len(nodes) = Len(facts)
            /\ childrenDescend(nodes, facts)
            /\ \A i \in 1..Len(nodes) :
                  childrenAscend(nodes, facts, i, enumerationOrder(facts[i].value))
            /\ containersCentred(nodes, facts)
            /\ levelsSpaced(nodes, facts)

\* the layout of a document with an integer-like key written last, a nested
\* container of two columns and an empty container: the member written last
\* stands left of the one written first, which is centred over its span
C12_Witness ==
    /\ pc = "built"
    /\ parsedData = JSONparse(IndexKeyText).value
    /\ LET facts == treeFacts(parsedData, 1, 0, 0)
       IN  /\ \E i \in 2..Len(rfNodes) :
                 /\ measure(rfNodes[i].value) = 2
                 /\ rfNodes[i].y = ROOT_Y + LEVEL_GAP
                 /\ centreX(rfNodes[i]) > centreX(rfNodes[2]) + COLUMN_GAP
           /\ \E j \in 1..Len(rfNodes) :
                 facts[j].depth = 2 /\ rfNodes[j].value = JArr(<<>>)
           /\ insertionOrders(parsedData.members) # {enumerationOrder(parsedData)}

\* C13: within one document node ids are unique: makeNodeId gives distinct
\* paths distinct ids, no two nodes share an id, no two edges share an id,
\* and the source and the target of every edge are each the id of exactly
\* one node.
C13_NodeIdsUnique ==
    pc # "data" =>
        LET nodes == builtTree.nodes
            edges == builtTree.edges
            nodesWithId(id) == {i \in 1..Len(nodes) : nodes[i].id = id}
        IN  /\ \A i, j \in 1..Len(nodes) :
                  nodes[i].path # nodes[j].path =>
                      makeNodeId(nodes[i].path) # makeNodeId(nodes[j].path)
            /\ \A i, j \in 1..Len(nodes) : i # j => nodes[i].id # nodes[j].id
            /\ \A e, f \in 1..Len(edges) : e # f => edges[e].id # edges[f].id
            /\ \A e \in 1..Len(edges) :
                  /\ Cardinality(nodesWithId(edges[e].source)) = 1
                  /\ Cardinality(nodesWithId(edges[e].target)) = 1

=============================================================================
